---- MODULE Spec2Model ----
(***************************************************************************)
(* Model of src/main.ts of ai-code-reviewer: the run of main() from the    *)
(* triggering event to the review submission, with every upstream call     *)
(* (pulls.get, compareCommits, repos.getContent, chat.completions.create,  *)
(* pulls.createReview) split into the step that issues it and the step     *)
(* that resumes the run with its outcome.                                  *)
(*                                                                         *)
(* JavaScript strings that the code inspects character by character (file  *)
(* paths, glob patterns, the exclude input, lineNumber strings) are        *)
(* sequences of one-character strings; strings the code only copies are    *)
(* TLA+ strings.                                                           *)
(***************************************************************************)
EXTENDS Integers, Sequences, FiniteSets, TLC

\* ------------------------------------------------------------------ bounds

\* Longest sequence of FileChange records in a fetched diff.
MaxFiles == 2

\* Largest number of hunks in a fetched diff, summed over its files.
MaxHunks == 2

\* Longest lineNumber string drawn by the projection specification.
MaxLen == 3

\* Longest finding sequence drawn by the projection specification.
MaxFindings == 2

\* The changes of a hunk drawn for createPrompt, and their line numbers.
MaxChanges == 2

\* ------------------------------------------------- JavaScript numbers

\* A JavaScript number: NaN, or the decimal n / 10^d kept normalised
\* (d = 0, or the last digit of n is not 0).
JSInt(i) == [nan |-> FALSE, n |-> i, d |-> 0]

NaN == [nan |-> TRUE, n |-> 0, d |-> 0]

IsInteger(x) == ~x.nan /\ x.d = 0

RECURSIVE Normalise(_, _)
Normalise(n, d) ==
  IF d > 0 /\ n % 10 = 0 THEN Normalise(n \div 10, d - 1)
  ELSE [nan |-> FALSE, n |-> n, d |-> d]

Digits == <<"0", "1", "2", "3", "4", "5", "6", "7", "8", "9">>

IsDigit(c) == \E i \in 1..10 : Digits[i] = c

DigitVal(c) == (CHOOSE i \in 1..10 : Digits[i] = c) - 1

IsWhiteSpace(c) == c = " "

RECURSIVE TrimStart(_)
TrimStart(s) ==
  IF s # <<>> /\ IsWhiteSpace(Head(s)) THEN TrimStart(Tail(s)) ELSE s

RECURSIVE TrimEnd(_)
TrimEnd(s) ==
  IF s # <<>> /\ IsWhiteSpace(s[Len(s)])
  THEN TrimEnd(SubSeq(s, 1, Len(s) - 1))
  ELSE s

\* String.prototype.trim
Trim(s) == TrimEnd(TrimStart(s))

AllDigits(s) == \A i \in 1..Len(s) : IsDigit(s[i])

RECURSIVE DigitsValue(_)
DigitsValue(s) ==
  IF s = <<>> THEN 0
  ELSE 10 * DigitsValue(SubSeq(s, 1, Len(s) - 1)) + DigitVal(s[Len(s)])

RECURSIVE Pow10(_)
Pow10(k) == IF k = 0 THEN 1 ELSE 10 * Pow10(k - 1)

\* Index of the first "." of s, or 0.
DotIndex(s) ==
  IF \E i \in 1..Len(s) : s[i] = "."
  THEN CHOOSE i \in 1..Len(s) : s[i] = "." /\ \A j \in 1..(i - 1) : s[j] # "."
  ELSE 0

\* StrUnsignedDecimalLiteral without exponent: digits, digits "." digits?,
\* or "." digits.
UnsignedDecimal(s) ==
  LET k  == DotIndex(s)
      ip == IF k = 0 THEN s ELSE SubSeq(s, 1, k - 1)
      fp == IF k = 0 THEN <<>> ELSE SubSeq(s, k + 1, Len(s))
  IN IF AllDigits(ip) /\ AllDigits(fp) /\ (ip # <<>> \/ fp # <<>>)
     THEN Normalise(DigitsValue(ip) * Pow10(Len(fp)) + DigitsValue(fp), Len(fp))
     ELSE NaN

Negate(x) == IF x.nan THEN x ELSE [x EXCEPT !.n = 0 - x.n]

\* Number(s) for a string s (ECMAScript StringToNumber) over the characters
\* digits, space, ".", "+", "-" and letters other than those of the hex,
\* exponent and Infinity forms.
StringToNumber(s) ==
  LET t == Trim(s)
  IN IF t = <<>> THEN JSInt(0)
     ELSE IF Head(t) = "-" THEN Negate(UnsignedDecimal(Tail(t)))
     ELSE IF Head(t) = "+" THEN UnsignedDecimal(Tail(t))
     ELSE UnsignedDecimal(t)

\* A lineNumber as JSON.parse delivers it: a string, a number, null, or
\* undefined when the finding has no such field.
StrVal(s) == [t |-> "string", s |-> s, num |-> NaN]

NumVal(x) == [t |-> "number", s |-> <<>>, num |-> x]

NullVal == [t |-> "null", s |-> <<>>, num |-> NaN]

UndefinedVal == [t |-> "undefined", s |-> <<>>, num |-> NaN]

\* Number(v)
ToNumber(v) ==
  CASE v.t = "number" -> v.num
    [] v.t = "string" -> StringToNumber(v.s)
    [] v.t = "null" -> JSInt(0)
    [] OTHER -> NaN

\* ------------------------------------------------------- exclusion globs

\* String.prototype.split(sep) for a one-character separator.
RECURSIVE Split(_, _)
Split(s, sep) ==
  IF \E i \in 1..Len(s) : s[i] = sep
  THEN LET k == CHOOSE i \in 1..Len(s) :
                  s[i] = sep /\ \A j \in 1..(i - 1) : s[j] # sep
       IN <<SubSeq(s, 1, k - 1)>> \o Split(SubSeq(s, k + 1, Len(s)), sep)
  ELSE <<s>>

\* One path segment against one pattern segment: "*" is any run of
\* characters, "?" is one character, anything else is itself.
RECURSIVE SegMatch(_, _)
SegMatch(s, p) ==
  IF p = <<>> THEN s = <<>>
  ELSE IF Head(p) = "*"
       THEN SegMatch(s, Tail(p)) \/ (s # <<>> /\ SegMatch(Tail(s), p))
  ELSE IF Head(p) = "?" THEN s # <<>> /\ SegMatch(Tail(s), Tail(p))
  ELSE s # <<>> /\ Head(s) = Head(p) /\ SegMatch(Tail(s), Tail(p))

\* A segment that starts with "." is matched only by a pattern segment
\* that starts with "." (minimatch without the dot option); a pattern
\* segment that starts with a wildcard needs a non-empty segment.
SegmentMatches(s, p) ==
  /\ SegMatch(s, p)
  /\ (p # <<>> /\ Head(p) \in {"*", "?"}) => (s # <<>> /\ Head(s) # ".")

\* minimatch(path, pattern) with default options, for patterns made of
\* literal characters, "*", "?" and "/".
minimatch(path, pattern) ==
  IF pattern # <<>> /\ Head(pattern) = "#" THEN FALSE
  ELSE IF Trim(pattern) = <<>> THEN path = <<>>
  ELSE LET ps == Split(path, "/")
           gs == Split(pattern, "/")
       IN /\ Len(ps) = Len(gs)
          /\ \A i \in 1..Len(gs) : SegmentMatches(ps[i], gs[i])

\* core.getInput("exclude").split(",").map((s) => s.trim())
ExcludePatterns(input) ==
  LET parts == Split(input, ",")
  IN [i \in 1..Len(parts) |-> Trim(parts[i])]

\* The values of the exclude input the model runs under: unset (the empty
\* string), "*.md", and "*.md, a.ts".
ExcludeInputs ==
  { <<>>,
    <<"*", ".", "m", "d">>,
    <<"*", ".", "m", "d", ",", " ", "a", ".", "t", "s">> }

\* ------------------------------------------------------- the parsed diff

DevNull == <<"/", "d", "e", "v", "/", "n", "u", "l", "l">>

PathA == <<"a", ".", "t", "s">>

PathReadme == <<"R", "E", "A", "D", "M", "E", ".", "m", "d">>

\* file.to of a parse-diff File: a path, the deletion sentinel, or absent.
ToOptions ==
  { [hasTo |-> TRUE, to |-> PathA],
    [hasTo |-> TRUE, to |-> PathReadme],
    [hasTo |-> TRUE, to |-> DevNull],
    [hasTo |-> FALSE, to |-> <<>>] }

\* An absent property of a parse-diff Change.
None == 0 - 1

AddChange(ln, content) ==
  [type |-> "add", ln |-> ln, ln1 |-> None, ln2 |-> None, content |-> content]

DeleteChange(ln, content) ==
  [type |-> "del", ln |-> ln, ln1 |-> None, ln2 |-> None, content |-> content]

NormalChange(ln1, ln2, content) ==
  [type |-> "normal", ln |-> None, ln1 |-> ln1, ln2 |-> ln2, content |-> content]

\* The i-th hunk of a file: one context line, one removed line and two
\* added lines; the first hunk ends at new line 42.
ChunkAt(i) ==
  LET b == 40 + 100 * (i - 1)
  IN [content |-> "@@ -" \o ToString(b) \o ",2 +" \o ToString(b) \o ",3 @@",
      changes |-> << NormalChange(b, b, " const limit = read();"),
                     DeleteChange(b + 1, "-if (n > 9) retry();"),
                     AddChange(b + 1, "+const max = 42;"),
                     AddChange(b + 2, "+if (n > max) retry();") >>]

\* A parse-diff File with n hunks.
File(o, n) ==
  [hasTo |-> o.hasTo, to |-> o.to, chunks |-> [i \in 1..n |-> ChunkAt(i)]]

\* The files a diff is drawn from: a file with a path has any number of
\* hunks within the bound; a deleted file and a file without target have
\* one hunk.
FileLib ==
  { f \in { File(o, n) : o \in ToOptions, n \in 0..MaxHunks } :
      (~f.hasTo \/ f.to = DevNull) => Len(f.chunks) = 1 }

RECURSIVE TotalHunks(_)
TotalHunks(files) ==
  IF files = <<>> THEN 0
  ELSE Len(Head(files).chunks) + TotalHunks(Tail(files))

\* The file sequences parseDiff can deliver within the bounds.
Diffs ==
  { d \in UNION { [1..k -> FileLib] : k \in 0..MaxFiles } :
      TotalHunks(d) <= MaxHunks }

\* response.data of a diff request: null, or a string that is empty or
\* holds a unified diff.
NullData == [t |-> "null", empty |-> TRUE, files |-> <<>>]

EmptyText == [t |-> "string", empty |-> TRUE, files |-> <<>>]

DiffText(files) == [t |-> "string", empty |-> FALSE, files |-> files]

DiffData == {NullData, EmptyText} \cup { DiffText(d) : d \in Diffs }

\* String(response.data): null becomes the four-character string "null",
\* in which parseDiff finds no file.
String(data) == IF data.t = "null" THEN DiffText(<<>>) ELSE data

\* !diff
DiffFalsy(data) == data.t = "null" \/ data.empty

\* parseDiff(diff), the files of the unified diff text.
parseDiff(data) == data.files

\* ------------------------------------------------ filter, cache, prompt

\* file.to ?? ""
ToOrEmpty(file) == IF file.hasTo THEN file.to ELSE <<>>

\* !file.to
ToFalsy(file) == ~file.hasTo \/ file.to = <<>>

\* excludePatterns.every(...): a file is excluded only when all patterns
\* match it.
FileExcluded_every(file, patterns) ==
  \A i \in 1..Len(patterns) : minimatch(ToOrEmpty(file), patterns[i])

\* excludePatterns.some((pattern) => minimatch(file.to ?? "", pattern))
FileExcluded(file, patterns) ==
  \E i \in 1..Len(patterns) : minimatch(ToOrEmpty(file), patterns[i])

\* parsedDiff.filter((file) => !excludePatterns.some(...))
FilterDiff(parsed, patterns) ==
  LET Keep(file) == ~FileExcluded(file, patterns)
  IN SelectSeq(parsed, Keep)

\* The file loop without its deletion guard.
SkipFile_noSentinel(file) == ToFalsy(file)

\* The two "continue" guards at the head of analyzeCode's file loop.
SkipFile(file) == (file.hasTo /\ file.to = DevNull) \/ ToFalsy(file)

\* !fileCache[file.to]: no entry for the path, or an entry holding "".
CacheMiss(cache, path) == path \notin DOMAIN cache \/ cache[path] = ""

\* fileCache[file.to] = content
CachePut(cache, path, content) ==
  [p \in DOMAIN cache \cup {path} |-> IF p = path THEN content ELSE cache[p]]

\* A prefix taken from the old side of an unchanged line: ln1 where the
\* code reads ln2.
PromptLine_oldSide(c) ==
  IF c.ln # None THEN [prefix |-> c.ln, content |-> c.content]
  ELSE IF c.ln1 # None THEN [prefix |-> c.ln1, content |-> c.content]
  ELSE [prefix |-> None, content |-> c.content]

\* The prefix createPrompt gives one Change of the hunk.
PromptLine(c) ==
  IF c.ln # None THEN [prefix |-> c.ln, content |-> c.content]
  ELSE IF c.ln2 # None THEN [prefix |-> c.ln2, content |-> c.content]
  ELSE [prefix |-> None, content |-> c.content]

\* createPrompt: the parts of the template that vary.
createPrompt(file, chunk, details, fullFile) ==
  [to          |-> ToOrEmpty(file),
   title       |-> details.title,
   description |-> details.description,
   fullFile    |-> fullFile,
   content     |-> chunk.content,
   lines       |-> [i \in 1..Len(chunk.changes) |-> PromptLine(chunk.changes[i])]]

NoPrompt ==
  [to |-> <<>>, title |-> "", description |-> "", fullFile |-> "",
   content |-> "", lines |-> <<>>]

\* ------------------------------------------------ the completion reply

\* A JavaScript value in the position of the "reviews" field.
JSValue(t, items) == [t |-> t, items |-> items]

Undefined == JSValue("undefined", <<>>)

Null == JSValue("null", <<>>)

\* Boolean(v)
Truthy(v) == v.t \notin {"undefined", "null", "false", "zero", "empty_string"}

\* One element of a reviews array: an object with the two fields, or null.
Finding(lineNumber, reviewComment) ==
  [t |-> "object", lineNumber |-> lineNumber, reviewComment |-> reviewComment]

NullElement == [t |-> "null", lineNumber |-> UndefinedVal, reviewComment |-> ""]

\* How client.chat.completions.create ends, and what the reply holds:
\*   transport_error, provider_error   the request rejects
\*   no_choices                        response.choices is empty
\*   content                           choices[0].message.content, where
\*     json = "none"    the content is null or blank
\*     json = "invalid" the content is no JSON text
\*     json = "null"    the content is the JSON text null
\*     json = "object"  the content is a JSON object, reviews its field
Outcome(kind, json, reviews) == [kind |-> kind, json |-> json, reviews |-> reviews]

NoOutcome == Outcome("none", "none", Undefined)

Quote42 == Finding(StrVal(<<"4", "2">>), "avoid magic number")

AIOutcomes ==
  { Outcome("transport_error", "none", Undefined),
    Outcome("provider_error", "none", Undefined),
    Outcome("no_choices", "none", Undefined),
    Outcome("content", "none", Undefined),
    Outcome("content", "invalid", Undefined),
    Outcome("content", "null", Undefined),
    Outcome("content", "object", Undefined),
    Outcome("content", "object", Null),
    Outcome("content", "object", JSValue("string", <<>>)),
    Outcome("content", "object", JSValue("array", <<>>)),
    Outcome("content", "object", JSValue("array", <<NullElement>>)),
    Outcome("content", "object", JSValue("array", <<Quote42>>)),
    Outcome("content", "object",
            JSValue("array", << Finding(StrVal(<<"a", "b", "c">>), "rename this"),
                                Finding(NumVal(JSInt(7)), "use a constant") >>)) }

\* getAIResponse without its try/catch: a failed request or an unparsable
\* body rejects.
getAIResponse_nocatch(o) ==
  IF o.kind # "content" THEN [threw |-> TRUE, value |-> Null]
  ELSE IF o.json = "none" THEN [threw |-> FALSE, value |-> Undefined]
  ELSE IF o.json = "object" THEN [threw |-> FALSE, value |-> o.reviews]
  ELSE [threw |-> TRUE, value |-> Null]

\* getAIResponse: whether the call rejects, and the value it resolves to.
\* Everything that throws inside (the request, choices[0].message of an
\* empty choices, JSON.parse, reading .reviews of null) is inside the try,
\* and the catch resolves to null.
getAIResponse(o) ==
  IF o.kind # "content" THEN [threw |-> FALSE, value |-> Null]
  ELSE IF o.json = "none" THEN [threw |-> FALSE, value |-> Undefined]
  ELSE IF o.json = "object" THEN [threw |-> FALSE, value |-> o.reviews]
  ELSE [threw |-> FALSE, value |-> Null]

\* An anchor whose line is taken over without Number(): a string stays a
\* string, which is no line number.
Anchor_uncoerced(file, finding) ==
  [body |-> finding.reviewComment,
   path |-> file.to,
   line |-> IF finding.lineNumber.t = "number"
            THEN finding.lineNumber.num
            ELSE NaN]

\* An anchor addressed by file.from, which for an added file is the
\* sentinel /dev/null.
Anchor_fromPath(file, finding) ==
  [body |-> finding.reviewComment,
   path |-> DevNull,
   line |-> ToNumber(finding.lineNumber)]

\* The element-wise callback of createComment.
Anchor(file, finding) ==
  [body |-> finding.reviewComment,
   path |-> file.to,
   line |-> ToNumber(finding.lineNumber)]

\* createComment: threw when aiResponses has no flatMap or an element has
\* no properties to read; otherwise the anchors, one per element, or none
\* at all when file.to is falsy.
createComment(file, chunk, aiResponses) ==
  IF aiResponses.t # "array" THEN [threw |-> TRUE, anchors |-> <<>>]
  ELSE IF ToFalsy(file) THEN [threw |-> FALSE, anchors |-> <<>>]
  ELSE IF \E i \in 1..Len(aiResponses.items) : aiResponses.items[i].t = "null"
       THEN [threw |-> TRUE, anchors |-> <<>>]
  ELSE [threw |-> FALSE,
        anchors |-> [i \in 1..Len(aiResponses.items) |->
                       Anchor(file, aiResponses.items[i])]]

\* ------------------------------------------------------ review request

\* comments.length >= 0
ShouldSubmit_always(cs) == Len(cs) >= 0

\* comments.length > 0
ShouldSubmit(cs) == Len(cs) > 0

\* A review request that carries only the first anchor.
ReviewRequest_first(cs) == [comments |-> SubSeq(cs, 1, 1), event |-> "COMMENT"]

\* The body of octokit.pulls.createReview.
ReviewRequest(cs) == [comments |-> cs, event |-> "COMMENT"]

\* createReviewComment with the request inside a try/catch that only logs.
createReviewComment_caught(result) == [threw |-> FALSE]

\* createReviewComment awaits the request outside any try: it rejects
\* exactly when the request does.
createReviewComment(result) == [threw |-> result # "ok"]

NoReview == [comments |-> <<>>, event |-> ""]

\* ------------------------------------------------------- event routing

EventActions == {"opened", "synchronize", "closed", "reopened"}

\* Routing that fetches the pull-request diff for both supported actions.
DiffSource_alwaysPull(a) ==
  IF a \in {"opened", "synchronize"} THEN "pulls.get:diff" ELSE "unsupported"

\* The branch main takes on eventData.action.
DiffSource(a) ==
  IF a = "opened" THEN "pulls.get:diff"
  ELSE IF a = "synchronize" THEN "repos.compareCommits"
  ELSE "unsupported"

\* octokit.pulls.get of getPRDetails: title ?? "", body ?? "", head.sha
PRResponses ==
  { [title |-> "Add limit", hasBody |-> FALSE, body |-> "", sha |-> "abc123"] }

PRDetailsOf(r) ==
  [title |-> r.title,
   description |-> IF r.hasBody THEN r.body ELSE "",
   headSha |-> r.sha]

NoDetails == [title |-> "", description |-> "", headSha |-> ""]

\* How octokit.repos.getContent ends: the request rejects, the data has no
\* content field (a directory), or the decoded file text.
FetchOutcomes ==
  { [kind |-> "error", content |-> ""],
    [kind |-> "no_content", content |-> ""],
    [kind |-> "file", content |-> ""],
    [kind |-> "file", content |-> "const max = 42;"] }

NoFetch == [kind |-> "none", content |-> ""]

\* getFullFileContent: whether the call rejects (the request rejects, or
\* the "content" check throws), and the decoded text it resolves to.
getFullFileContent(o) == [threw |-> o.kind # "file", value |-> o.content]

\* A catch that only warns: the entry stays undefined, which the prompt
\* template prints as "undefined".
FetchedOrEmpty_unset(result) ==
  IF result.threw THEN "undefined" ELSE result.value

\* What analyzeCode's try/catch stores in fileCache[file.to]: the text, or
\* "" from the catch.
FetchedOrEmpty(result) == IF result.threw THEN "" ELSE result.value

\* ------------------------------------------------------------- the run

VARIABLES
  eventAction,   \* eventData.action of the triggering event
  excludeInput,  \* core.getInput("exclude")
  pc,            \* where main stands
  prDetails,     \* main's prDetails
  diff,          \* main's diff
  parsedDiff,    \* main's parsedDiff
  filteredDiff,  \* main's filteredDiff, analyzeCode's parsedDiff
  fileIdx,       \* position of analyzeCode's file loop in filteredDiff
  chunkIdx,      \* position of the chunk loop in file.chunks
  fileCache,     \* analyzeCode's fileCache
  lastFetch,     \* how the repos.getContent request of the current file ended
  prompt,        \* the prompt of the latest completion request
  aiOutcome,     \* how the completion request just resumed from ended
  comments,      \* analyzeCode's comments
  calls,         \* the upstream requests issued so far, in order
  review,        \* the body of the createReview request, once issued
  reviewResult,  \* how the createReview request ended: none, ok, error
  status,        \* running, or how the run ended
  exitCode       \* the exit status of the process

vars ==
  << eventAction, excludeInput, pc, prDetails, diff, parsedDiff, filteredDiff,
     fileIdx, chunkIdx, fileCache, lastFetch, prompt, aiOutcome, comments,
     calls, review, reviewResult, status, exitCode >>

\* One upstream request: the endpoint, and for a file or hunk request the
\* path and the positions in filteredDiff and file.chunks.
Call(api, path, f, c) == [api |-> api, path |-> path, file |-> f, chunk |-> c]

Config == << eventAction, excludeInput >>

Locals ==
  << prDetails, diff, parsedDiff, filteredDiff, fileIdx, chunkIdx, fileCache,
     lastFetch, prompt, aiOutcome, comments, review, reviewResult >>

Init ==
  /\ eventAction \in EventActions
  /\ excludeInput \in ExcludeInputs
  /\ pc = "main"
  /\ prDetails = NoDetails
  /\ diff = NullData
  /\ parsedDiff = <<>>
  /\ filteredDiff = <<>>
  /\ fileIdx = 0
  /\ chunkIdx = 0
  /\ fileCache = <<>>
  /\ lastFetch = NoFetch
  /\ prompt = NoPrompt
  /\ aiOutcome = NoOutcome
  /\ comments = <<>>
  /\ calls = <<>>
  /\ review = NoReview
  /\ reviewResult = "none"
  /\ status = "running"
  /\ exitCode = 0

\* main returns: the process ends with exit status 0.
Return(how) ==
  /\ pc' = "done"
  /\ status' = how
  /\ exitCode' = 0

\* A main().catch that logs the error and lets the process end normally.
Throw_logOnly ==
  /\ pc' = "done"
  /\ status' = "failed"
  /\ exitCode' = 0

\* A rejection reaches main().catch: process.exit(1).
Throw ==
  /\ pc' = "done"
  /\ status' = "failed"
  /\ exitCode' = 1

Continue(next) ==
  /\ pc' = next
  /\ UNCHANGED << status, exitCode >>

\* getPRDetails up to its await: the event file is read and the pull
\* request is requested.
GetPRDetails ==
  /\ pc = "main"
  /\ calls' = Append(calls, Call("pulls.get", <<>>, 0, 0))
  /\ Continue("await_pulls_get")
  /\ UNCHANGED << Config, Locals >>

\* getPRDetails resumes, and main reads the event a second time.
PRDetailsReturn ==
  /\ pc = "await_pulls_get"
  /\ \/ /\ \E r \in PRResponses : prDetails' = PRDetailsOf(r)
        /\ Continue("route")
     \/ /\ Throw
        /\ UNCHANGED prDetails
  /\ UNCHANGED << Config, diff, parsedDiff, filteredDiff, fileIdx, chunkIdx,
                  fileCache, lastFetch, prompt, aiOutcome, comments, calls,
                  review, reviewResult >>

\* The branch on eventData.action.
Route ==
  /\ pc = "route"
  /\ IF DiffSource(eventAction) = "unsupported"
     THEN /\ Return("unsupported")
          /\ UNCHANGED calls
     ELSE /\ calls' = Append(calls, Call(DiffSource(eventAction), <<>>, 0, 0))
          /\ Continue("await_diff")
  /\ UNCHANGED << Config, Locals >>

\* getDiff or compareCommits resumes.
DiffReturn ==
  /\ pc = "await_diff"
  /\ \/ /\ \E data \in DiffData :
             diff' = IF calls[Len(calls)].api = "repos.compareCommits"
                     THEN String(data)
                     ELSE data
        /\ Continue("have_diff")
     \/ /\ Throw
        /\ UNCHANGED diff
  /\ UNCHANGED << Config, prDetails, parsedDiff, filteredDiff, fileIdx,
                  chunkIdx, fileCache, lastFetch, prompt, aiOutcome, comments,
                  calls, review, reviewResult >>

\* if (!diff) return; otherwise parse, filter and enter analyzeCode.
ParseAndFilter ==
  /\ pc = "have_diff"
  /\ IF DiffFalsy(diff)
     THEN /\ Return("skipped")
          /\ UNCHANGED << parsedDiff, filteredDiff, fileIdx >>
     ELSE /\ parsedDiff' = parseDiff(diff)
          /\ filteredDiff' =
               FilterDiff(parseDiff(diff), ExcludePatterns(excludeInput))
          /\ fileIdx' = 1
          /\ Continue("for_file")
  /\ UNCHANGED << Config, prDetails, diff, chunkIdx, fileCache, lastFetch,
                  prompt, aiOutcome, comments, calls, review, reviewResult >>

\* The head of the file loop: leave the loop, skip the file, fetch its
\* content, or go on to its chunks with the cached content.
NextFile ==
  /\ pc = "for_file"
  /\ IF fileIdx > Len(filteredDiff)
     THEN /\ Continue("analyzed")
          /\ UNCHANGED << fileIdx, chunkIdx, calls >>
     ELSE LET file == filteredDiff[fileIdx]
          IN IF SkipFile(file)
             THEN /\ fileIdx' = fileIdx + 1
                  /\ Continue("for_file")
                  /\ UNCHANGED << chunkIdx, calls >>
             ELSE IF CacheMiss(fileCache, file.to)
             THEN /\ calls' =
                       Append(calls, Call("repos.getContent", file.to, fileIdx, 0))
                  /\ Continue("await_content")
                  /\ UNCHANGED << fileIdx, chunkIdx >>
             ELSE /\ chunkIdx' = 1
                  /\ Continue("for_chunk")
                  /\ UNCHANGED << fileIdx, calls >>
  /\ UNCHANGED << Config, prDetails, diff, parsedDiff, filteredDiff, fileCache,
                  lastFetch, prompt, aiOutcome, comments, review, reviewResult >>

\* getFullFileContent resumes: the decoded text, or "" after the catch.
ContentReturn ==
  /\ pc = "await_content"
  /\ \E o \in FetchOutcomes :
       /\ lastFetch' = o
       /\ fileCache' =
            CachePut(fileCache, filteredDiff[fileIdx].to,
                     FetchedOrEmpty(getFullFileContent(o)))
  /\ chunkIdx' = 1
  /\ Continue("for_chunk")
  /\ UNCHANGED << Config, prDetails, diff, parsedDiff, filteredDiff, fileIdx,
                  prompt, aiOutcome, comments, calls, review, reviewResult >>

\* The head of the chunk loop: next file, or build the prompt and request
\* the completion. The outcome of the request before it is out of scope,
\* and so is the outcome of the file's fetch once the file is left.
NextChunk ==
  /\ pc = "for_chunk"
  /\ LET file == filteredDiff[fileIdx]
     IN IF chunkIdx > Len(file.chunks)
        THEN /\ fileIdx' = fileIdx + 1
             /\ lastFetch' = NoFetch
             /\ Continue("for_file")
             /\ UNCHANGED << chunkIdx, prompt, calls >>
        ELSE /\ prompt' = createPrompt(file, file.chunks[chunkIdx], prDetails,
                                       fileCache[file.to])
             /\ calls' = Append(calls, Call("chat.completions.create",
                                            file.to, fileIdx, chunkIdx))
             /\ Continue("await_completion")
             /\ UNCHANGED << fileIdx, chunkIdx, lastFetch >>
  /\ aiOutcome' = NoOutcome
  /\ UNCHANGED << Config, prDetails, diff, parsedDiff, filteredDiff, fileCache,
                  comments, review, reviewResult >>

\* The rest of one iteration of the chunk loop, from the point where
\* getAIResponse resumes with outcome o: a truthy result is projected and
\* appended. analyzeCode has no try, so a rejection of getAIResponse or an
\* exception of createComment ends the run in main().catch.
CompletionResume(o) ==
  /\ pc = "await_completion"
  /\ LET file      == filteredDiff[fileIdx]
         answer    == getAIResponse(o)
         projected == createComment(file, file.chunks[chunkIdx], answer.value)
     IN /\ aiOutcome' = o
        /\ IF answer.threw
           THEN /\ Throw
                /\ UNCHANGED << chunkIdx, comments >>
           ELSE IF ~Truthy(answer.value)
           THEN /\ chunkIdx' = chunkIdx + 1
                /\ Continue("for_chunk")
                /\ UNCHANGED comments
           ELSE IF projected.threw
           THEN /\ Throw
                /\ UNCHANGED << chunkIdx, comments >>
           ELSE /\ comments' = comments \o projected.anchors
                /\ chunkIdx' = chunkIdx + 1
                /\ Continue("for_chunk")
  /\ UNCHANGED << Config, prDetails, diff, parsedDiff, filteredDiff, fileIdx,
                  fileCache, lastFetch, prompt, calls, review, reviewResult >>

CompletionReturn == \E o \in AIOutcomes : CompletionResume(o)

\* After analyzeCode: request the review, or return without one.
Submit ==
  /\ pc = "analyzed"
  /\ IF ShouldSubmit(comments)
     THEN /\ review' = ReviewRequest(comments)
          /\ calls' = Append(calls, Call("pulls.createReview", <<>>, 0, 0))
          /\ Continue("await_review")
     ELSE /\ Return("skipped")
          /\ UNCHANGED << review, calls >>
  /\ UNCHANGED << Config, prDetails, diff, parsedDiff, filteredDiff, fileIdx,
                  chunkIdx, fileCache, lastFetch, prompt, aiOutcome, comments,
                  reviewResult >>

\* createReviewComment resumes: main returns, or the rejection reaches
\* main().catch.
ReviewReturn ==
  /\ pc = "await_review"
  /\ \E result \in {"ok", "error"} :
       /\ reviewResult' = result
       /\ IF createReviewComment(result).threw
          THEN Throw
          ELSE Return("submitted")
  /\ UNCHANGED << Config, prDetails, diff, parsedDiff, filteredDiff, fileIdx,
                  chunkIdx, fileCache, lastFetch, prompt, aiOutcome, comments,
                  review, calls >>

Next ==
  \/ GetPRDetails
  \/ PRDetailsReturn
  \/ Route
  \/ DiffReturn
  \/ ParseAndFilter
  \/ NextFile
  \/ ContentReturn
  \/ NextChunk
  \/ CompletionReturn
  \/ Submit
  \/ ReviewReturn

Spec == Init /\ [][Next]_vars

\* The run when every awaited request is answered and the event loop
\* resumes whatever can resume.
FairSpec == Spec /\ WF_vars(Next)

\* ---------------------------------------------------------- properties

\* The positions in calls of the requests to one endpoint.
CallIdx(api) == { i \in 1..Len(calls) : calls[i].api = api }

Count(api) == Cardinality(CallIdx(api))

\* The completion reply decoded to an array of findings.
IsFindingArray(o) ==
  o.kind = "content" /\ o.json = "object" /\ o.reviews.t = "array"

\* The findings of items whose lineNumber coerces to an integer, in order.
IntegerFindings(items) ==
  LET Coerces(f) == IsInteger(ToNumber(f.lineNumber))
  IN SelectSeq(items, Coerces)

\* C1: when a completion resumes with an array of findings for a file with
\* a present targetPath, what is appended to the aggregated anchors is one
\* anchor per finding whose lineNumber coerces to an integer, in order, and
\* nothing for a finding whose lineNumber does not.
C1_MalformedFindingsDropped ==
  [][ ( /\ pc = "await_completion"
        /\ pc' = "for_chunk"
        /\ IsFindingArray(aiOutcome') )
      => LET file == filteredDiff[fileIdx]
             kept == IntegerFindings(aiOutcome'.reviews.items)
         IN comments' = comments \o
              [i \in 1..Len(kept) |->
                 [body |-> kept[i].reviewComment,
                  path |-> file.to,
                  line |-> ToNumber(kept[i].lineNumber)]] ]_vars

\* The four ways the claim lists for a completion request to fail.
RequestFailed(o) ==
  \/ o.kind \in {"transport_error", "provider_error"}
  \/ o.kind = "content" /\ o.json = "invalid"
  \/ o.kind = "content" /\ o.json = "object" /\ o.reviews.t = "undefined"

\* C2: when a completion request ends in a transport error, a provider
\* error, a non-JSON body or a JSON object without reviews, the hunk adds
\* no anchor, nothing is thrown, and the run goes on to the next hunk
\* instead of ending failed.
C2_RequesterNeverAborts ==
  [][ ( /\ pc = "await_completion"
        /\ pc' # "await_completion"
        /\ RequestFailed(aiOutcome') )
      => /\ comments' = comments
         /\ pc' = "for_chunk"
         /\ chunkIdx' = chunkIdx + 1
         /\ status' = "running"
         /\ exitCode' = 0 ]_vars

\* A second hunk whose completion was no JSON, after a first hunk that
\* contributed anchors: the anchors are kept and the run stands at the
\* head of the chunk loop.
C2_Witness ==
  /\ pc = "for_chunk"
  /\ chunkIdx = 3
  /\ aiOutcome.kind = "content" /\ aiOutcome.json = "invalid"
  /\ comments # <<>>
  /\ status = "running"

\* C3: no path is the subject of two get-file-content requests in one run.
C3_FetchAtMostOncePerPath ==
  \A i, j \in CallIdx("repos.getContent") :
    calls[i].path = calls[j].path => i = j

\* C4: a run whose event action is neither "opened" nor "synchronize"
\* issues no upstream request at all and, once over, has ended cleanly as
\* an unsupported event with exit status 0.
C4_UnsupportedEventNoCalls ==
  eventAction \notin {"opened", "synchronize"}
    => /\ calls = <<>>
       /\ pc = "done" => (status = "unsupported" /\ exitCode = 0)

\* What the claims call a deleted, absent or excluded target, and its
\* opposite, under the configured exclusion patterns.
Unreviewable(file) ==
  \/ ~file.hasTo
  \/ file.to = DevNull
  \/ \E i \in 1..Len(ExcludePatterns(excludeInput)) :
       minimatch(file.to, ExcludePatterns(excludeInput)[i])

\* The anchors aggregated so far and those of the review request.
AllAnchors ==
  { comments[i] : i \in 1..Len(comments) }
    \cup { review.comments[i] : i \in 1..Len(review.comments) }

\* C5: for every FileChange of the parsed diff whose target is the
\* deletion sentinel, absent or excluded by a pattern, there is no
\* get-file-content request and no completion request for its path, no
\* prompt names it, and no aggregated or submitted anchor carries its path.
C5_UnreviewableNeverReviewed ==
  \A k \in 1..Len(parsedDiff) :
    Unreviewable(parsedDiff[k])
      => /\ \A i \in CallIdx("repos.getContent") \cup
                       CallIdx("chat.completions.create") :
              /\ calls[i].path # ToOrEmpty(parsedDiff[k])
              /\ filteredDiff[calls[i].file] # parsedDiff[k]
         /\ prompt # NoPrompt => prompt.to # ToOrEmpty(parsedDiff[k])
         /\ \A a \in AllAnchors : a.path # ToOrEmpty(parsedDiff[k])

\* A submitted review of a diff that held README.md, excluded by "*.md",
\* with hunks of its own.
C5_Witness ==
  /\ status = "submitted"
  /\ excludeInput = <<"*", ".", "m", "d">>
  /\ \E k \in 1..Len(parsedDiff) :
       /\ parsedDiff[k].to = PathReadme
       /\ Len(parsedDiff[k].chunks) > 0

\* analyzeCode has returned: the file loop ran off the end of the diff.
Analyzed == fileIdx > Len(filteredDiff)

\* C6: once analyzeCode has returned an empty anchor sequence, no
\* create-review request is ever issued, and the run ends skipped with
\* exit status 0.
C6_NoOpSubmission ==
  (Analyzed /\ comments = <<>>)
    => /\ Count("pulls.createReview") = 0
       /\ review = NoReview
       /\ pc \in {"for_file", "analyzed", "done"}
       /\ pc = "done" => (status = "skipped" /\ exitCode = 0)

\* A finished run in which two completions were requested and none of
\* them left an anchor.
C6_Witness ==
  /\ pc = "done"
  /\ Analyzed
  /\ comments = <<>>
  /\ Count("chat.completions.create") = 2

RECURSIVE ReviewableHunks(_)
ReviewableHunks(files) ==
  IF files = <<>> THEN 0
  ELSE (IF Unreviewable(Head(files)) THEN 0 ELSE Len(Head(files).chunks))
         + ReviewableHunks(Tail(files))

\* C7: once analyzeCode has returned a non-empty anchor sequence and main
\* has acted on it, exactly one create-review request has been issued; it
\* carries exactly the aggregated anchors with the event COMMENT; and a
\* create-review request is always the last request of the run, issued
\* when every hunk of every reviewed file has had its completion request
\* and no request is in flight.
C7_SingleBatchedSubmission ==
  /\ (Analyzed /\ comments # <<>> /\ pc \in {"await_review", "done"})
       => /\ Count("pulls.createReview") = 1
          /\ review = [comments |-> comments, event |-> "COMMENT"]
  /\ \A i \in CallIdx("pulls.createReview") :
       /\ i = Len(calls)
       /\ pc \in {"await_review", "done"}
       /\ Count("chat.completions.create") = ReviewableHunks(parsedDiff)
       /\ \A k \in 1..Len(filteredDiff) :
            ~Unreviewable(filteredDiff[k]) =>
              \A c \in 1..Len(filteredDiff[k].chunks) :
                \E j \in 1..(i - 1) :
                  calls[j] = Call("chat.completions.create",
                                  filteredDiff[k].to, k, c)

\* A submitted review whose anchors come from two hunks.
C7_Witness ==
  /\ status = "submitted"
  /\ Count("chat.completions.create") = 2
  /\ Len(review.comments) = 3

\* C8: when the create-review request fails, the run ends failed with exit
\* status 1 after that single request; and a run that ends submitted had
\* its one request succeed with every aggregated anchor in it.
C8_SubmissionFailureFatal ==
  /\ reviewResult = "error"
       => /\ pc = "done" /\ status = "failed" /\ exitCode = 1
          /\ Count("pulls.createReview") = 1
  /\ status = "submitted"
       => /\ reviewResult = "ok"
          /\ review.comments = comments
          /\ Count("pulls.createReview") = 1

\* A run whose create-review request was rejected.
C8_Witness ==
  /\ reviewResult = "error"
  /\ Len(review.comments) > 0
  /\ pc = "done"

DiffApis == {"pulls.get:diff", "repos.compareCommits"}

\* C9: an opened event never requests the commit-range diff and a
\* synchronize event never requests the pull-request diff; once the run is
\* past the routing of such an event it has requested exactly one diff,
\* the one of its action; and every file-content and completion request
\* comes after the diff request.
C9_OneDiffSource ==
  /\ eventAction = "opened" => Count("repos.compareCommits") = 0
  /\ eventAction = "synchronize" => Count("pulls.get:diff") = 0
  /\ Count("pulls.get:diff") + Count("repos.compareCommits") <= 1
  /\ (prDetails # NoDetails /\ pc # "route")
       => /\ eventAction = "opened" => Count("pulls.get:diff") = 1
          /\ eventAction = "synchronize" => Count("repos.compareCommits") = 1
  /\ \A i \in CallIdx("repos.getContent") \cup CallIdx("chat.completions.create") :
       \E j \in 1..(i - 1) : calls[j].api \in DiffApis

\* A synchronize run that went on from the commit-range diff to a file
\* fetch and a completion request.
C9_Witness ==
  /\ eventAction = "synchronize"
  /\ Count("repos.compareCommits") = 1
  /\ Count("repos.getContent") = 1
  /\ Count("chat.completions.create") = 1

\* ------------------------------------------- the projection on its own

\* The characters of the lineNumber strings drawn below.
ProjAlphabet == {"0", "2", "4", " ", ".", "-", "a"}

ProjStrings == UNION { [1..n -> ProjAlphabet] : n \in 0..MaxLen }

\* The lineNumber values drawn: every string within the bound, some JSON
\* numbers, null, and a finding without the field.
ProjLineVals ==
  { StrVal(str) : str \in ProjStrings }
    \cup { NumVal(JSInt(42)), NumVal(JSInt(0)), NumVal(JSInt(0 - 1)),
           NumVal([nan |-> FALSE, n |-> 425, d |-> 1]),
           NullVal, UndefinedVal }

\* The lineNumber of the sibling at position j: "abc" at the odd
\* positions, "42" at the even ones.
SiblingLineVal(j) ==
  IF j % 2 = 1 THEN StrVal(<<"a", "b", "c">>) ELSE StrVal(<<"4", "2">>)

\* The finding sequences drawn: one finding with any lineNumber, at any
\* position among siblings, each finding with a comment of its own.
ProjItems ==
  UNION { UNION { { [j \in 1..n |->
                      Finding(IF j = i THEN v ELSE SiblingLineVal(j),
                              "finding " \o ToString(j))] :
                    v \in ProjLineVals } :
                  i \in 1..n } :
          n \in 1..MaxFindings }

ProjOutcomes ==
  { Outcome("content", "object", JSValue("array", items)) : items \in ProjItems }

\* The run at the await of the completion request for the only hunk of a
\* one-file diff, as Spec reaches it.
InitProjection ==
  \E o \in { t \in ToOptions : ~SkipFile(File(t, 1)) } :
      LET file    == File(o, 1)
          content == "const max = 42;"
      IN /\ eventAction = "opened"
         /\ excludeInput = <<>>
         /\ pc = "await_completion"
         /\ prDetails \in { PRDetailsOf(r) : r \in PRResponses }
         /\ diff = DiffText(<<file>>)
         /\ parsedDiff = <<file>>
         /\ filteredDiff = <<file>>
         /\ fileIdx = 1
         /\ chunkIdx = 1
         /\ fileCache = CachePut(<<>>, file.to, content)
         /\ lastFetch = [kind |-> "file", content |-> content]
         /\ prompt = createPrompt(file, file.chunks[1], prDetails, content)
         /\ aiOutcome = NoOutcome
         /\ comments = <<>>
         /\ calls = << Call("pulls.get", <<>>, 0, 0),
                       Call("pulls.get:diff", <<>>, 0, 0),
                       Call("repos.getContent", file.to, 1, 0),
                       Call("chat.completions.create", file.to, 1, 1) >>
         /\ review = NoReview
         /\ reviewResult = "none"
         /\ status = "running"
         /\ exitCode = 0

\* createComment applied to a drawn reply, by the step of the run itself.
ProjectFindings ==
  /\ pc = "await_completion"
  /\ \E o \in ProjOutcomes : CompletionResume(o)

SpecProjection == InitProjection /\ [][ProjectFindings]_vars

\* The decimal numeral of a natural number.
RECURSIVE DecimalString(_)
DecimalString(n) ==
  IF n < 10 THEN <<Digits[n + 1]>>
  ELSE DecimalString(n \div 10) \o <<Digits[(n % 10) + 1]>>

\* The digits of a signed decimal string, without the sign.
Unsigned(str) == IF str # <<>> /\ Head(str) = "-" THEN Tail(str) ELSE str

\* A lineNumber that denotes an integer: a JSON number that is one, or a
\* string that is the decimal numeral of one, with "-" in front if negative.
DenotesInteger(v) ==
  \/ v.t = "number" /\ IsInteger(v.num)
  \/ /\ v.t = "string"
     /\ Unsigned(v.s) # <<>>
     /\ AllDigits(Unsigned(v.s))
     /\ DecimalString(DigitsValue(Unsigned(v.s))) = Unsigned(v.s)

\* The integer it denotes.
Denoted(v) ==
  IF v.t = "number" THEN v.num.n
  ELSE IF Head(v.s) = "-" THEN 0 - DigitsValue(Tail(v.s))
  ELSE DigitsValue(v.s)

\* C10: after the projection of an array of findings for a file with a
\* present targetPath, every finding whose lineNumber denotes an integer,
\* as a number or as a decimal string, has its anchor at its own position
\* among the anchors: line that integer, path the targetPath, body the
\* finding's reviewComment.
C10_WellFormedProjection ==
  (pc = "for_chunk" /\ IsFindingArray(aiOutcome))
    => LET items == aiOutcome.reviews.items
           file  == filteredDiff[fileIdx]
       IN /\ Len(comments) = Len(items)
          /\ \A i \in 1..Len(items) :
               DenotesInteger(items[i].lineNumber)
                 => comments[i] =
                      [body |-> items[i].reviewComment,
                       path |-> file.to,
                       line |-> JSInt(Denoted(items[i].lineNumber))]

\* Two findings projected, line 42 given once as a number and once as the
\* string "42".
C10_Witness ==
  /\ pc = "for_chunk"
  /\ IsFindingArray(aiOutcome)
  /\ Len(aiOutcome.reviews.items) = 2
  /\ aiOutcome.reviews.items[1].lineNumber = NumVal(JSInt(42))
  /\ aiOutcome.reviews.items[2].lineNumber = StrVal(<<"4", "2">>)
  /\ Len(comments) = 2

\* ------------------------------------------------- the rest of the run

\* The ways the claim lists for a get-file-content request to fail.
FetchFailed(o) == o.kind \in {"error", "no_content"}

\* C11: when the get-file-content request of a reviewed file fails, the
\* cache entry of its path becomes "" and the run goes on, not failed, to
\* the file's first hunk; from there every hunk the chunk loop stands at
\* has its prompt built with "" as the file content and its completion
\* requested; and when the loop leaves the file every one of its hunks has
\* had its completion request.
C11_FetchFailureDegrades ==
  [][ LET file == filteredDiff[fileIdx]
      IN /\ (pc = "await_content" /\ pc' # "await_content"
                /\ FetchFailed(lastFetch'))
              => /\ file.to \in DOMAIN fileCache'
                 /\ fileCache'[file.to] = ""
                 /\ pc' = "for_chunk"
                 /\ chunkIdx' = 1
                 /\ status' = "running"
                 /\ exitCode' = 0
         /\ (pc = "for_chunk" /\ FetchFailed(lastFetch)
                /\ chunkIdx <= Len(file.chunks))
              => /\ pc' = "await_completion"
                 /\ prompt'.to = file.to
                 /\ prompt'.content = file.chunks[chunkIdx].content
                 /\ prompt'.fullFile = ""
                 /\ calls' = Append(calls, Call("chat.completions.create",
                                                file.to, fileIdx, chunkIdx))
         /\ (FetchFailed(lastFetch) /\ fileIdx' # fileIdx)
              => \A c \in 1..Len(file.chunks) :
                   \E j \in CallIdx("chat.completions.create") :
                     calls[j] = Call("chat.completions.create",
                                     file.to, fileIdx, c) ]_vars

\* The second hunk of a file whose fetch was rejected, with its prompt
\* built on the empty file content and its completion requested.
C11_Witness ==
  /\ pc = "await_completion"
  /\ lastFetch.kind = "error"
  /\ chunkIdx = 2
  /\ prompt.fullFile = ""
  /\ status = "running"

\* A diff that is absent, empty, or (the string "null" that String makes
\* of an absent commit-range diff) a text without any file.
EmptyDiff == DiffFalsy(diff) \/ parseDiff(diff) = <<>>

\* C13: once the diff request of an opened or synchronize event has
\* answered with an empty or absent diff, no file content, completion or
\* review has been requested, and every further step of the run issues no
\* request, adds no anchor, and either goes on running or ends the run
\* skipped with exit status 0.
C13_EmptyDiffSkipped ==
  [][ (pc \in {"have_diff", "for_file", "analyzed"} /\ EmptyDiff)
      => /\ calls' = calls
         /\ \A i \in 1..Len(calls) :
              calls[i].api \in {"pulls.get"} \cup DiffApis
         /\ comments' = <<>>
         /\ review' = NoReview
         /\ pc' \in {"for_file", "analyzed", "done"}
         /\ status' = IF pc' = "done" THEN "skipped" ELSE "running"
         /\ exitCode' = 0 ]_vars

\* A synchronize run whose commit-range diff was absent, ended skipped.
C13_Witness ==
  /\ eventAction = "synchronize"
  /\ Count("repos.compareCommits") = 1
  /\ diff = String(NullData)
  /\ pc = "done"
  /\ status = "skipped"

\* A JSON object whose reviews field is present but is no sequence of
\* finding objects: null, a string, an array with a null element.
InvalidShape(o) ==
  /\ o.kind = "content"
  /\ o.json = "object"
  /\ o.reviews.t # "undefined"
  /\ ~ ( /\ o.reviews.t = "array"
         /\ \A i \in 1..Len(o.reviews.items) : o.reviews.items[i].t = "object" )

\* C14: when a completion resumes with a JSON object whose reviews field
\* is present but is no sequence of finding objects, the hunk adds no
\* anchor, and the run goes on to the next hunk instead of ending failed.
C14_InvalidShapeRejected ==
  [][ ( /\ pc = "await_completion"
        /\ pc' # "await_completion"
        /\ InvalidShape(aiOutcome') )
      => /\ comments' = comments
         /\ pc' = "for_chunk"
         /\ chunkIdx' = chunkIdx + 1
         /\ status' = "running"
         /\ exitCode' = 0 ]_vars

\* C15: no step of the run changes or removes the value the cache holds
\* for a path, be it fetched content or the "" stored after a failed
\* fetch.
C15_CacheEntriesImmutable ==
  [][ \A p \in DOMAIN fileCache :
        /\ p \in DOMAIN fileCache'
        /\ fileCache'[p] = fileCache[p] ]_vars

\* The order-preserving subsequence of the parsed diff the claim describes:
\* the records with a present, non-deleted target that no pattern matches.
ClaimedFilterOutput ==
  LET Passes(file) == ~Unreviewable(file)
  IN SelectSeq(parsedDiff, Passes)

\* The records of filteredDiff that pass the two guards of the file loop.
PastGuards ==
  LET Passes(file) == ~SkipFile(file)
  IN SelectSeq(filteredDiff, Passes)

\* C16 as stated: the output of the filter is the order-preserving
\* subsequence of the parsed diff holding exactly the records whose
\* targetPath is present, is not the deletion sentinel and matches no
\* pattern.
C16_FilterOutput == filteredDiff = ClaimedFilterOutput

\* C16 amended: the records that pass the filter and then the two guards
\* of the file loop are, in order, exactly the records of the parsed diff
\* whose targetPath is present, is not the deletion sentinel and matches
\* no pattern; the filter's own output holds nothing else but records with
\* a deleted or absent target.
C16_FilterThenGuards ==
  /\ PastGuards = ClaimedFilterOutput
  /\ \A k \in 1..Len(filteredDiff) :
       SkipFile(filteredDiff[k]) \/ ~Unreviewable(filteredDiff[k])

\* A diff of a deleted file and a.ts, both past the filter, with the run
\* at the completion request of a.ts.
C16_Witness ==
  /\ pc = "await_completion"
  /\ Len(parsedDiff) = 2
  /\ Len(filteredDiff) = 2
  /\ filteredDiff[1].to = DevNull
  /\ filteredDiff[2].to = PathA
  /\ fileIdx = 2

\* The completion requests of a whole review in diff order: for each file
\* of filteredDiff from position k on that has a present, non-deleted,
\* non-excluded target, one request per hunk, in hunk order.
RECURSIVE ExpectedRequests(_)
ExpectedRequests(k) ==
  IF k > Len(filteredDiff) THEN <<>>
  ELSE LET file == filteredDiff[k]
       IN (IF Unreviewable(file) THEN <<>>
           ELSE [c \in 1..Len(file.chunks) |->
                   Call("chat.completions.create", file.to, k, c)])
          \o ExpectedRequests(k + 1)

\* The completion requests issued so far, in the order of their issue.
IssuedRequests ==
  LET IsCompletion(call) == call.api = "chat.completions.create"
  IN SelectSeq(calls, IsCompletion)

\* C17: the completion requests issued so far are always an initial part
\* of the hunks of the reviewed files in diff order, one request per
\* hunk, and are all of them once analyzeCode has returned; a request is
\* issued only from the head of the chunk loop, where none is in flight,
\* and the one in flight is the request of the hunk the loop stands at;
\* anchors are appended only by the step that resumes from a request, all
\* with that request's path, and so before the next request is issued.
C17_OneSequentialRequestPerHunk ==
  /\ [] ( /\ Len(IssuedRequests) <= Len(ExpectedRequests(1))
          /\ IssuedRequests =
               SubSeq(ExpectedRequests(1), 1, Len(IssuedRequests))
          /\ Analyzed => IssuedRequests = ExpectedRequests(1)
          /\ pc = "await_completion"
               => calls[Len(calls)] =
                    Call("chat.completions.create",
                         filteredDiff[fileIdx].to, fileIdx, chunkIdx) )
  /\ [][ /\ IssuedRequests' # IssuedRequests
            => /\ pc = "for_chunk"
               /\ pc' = "await_completion"
               /\ Len(IssuedRequests') = Len(IssuedRequests) + 1
               /\ comments' = comments
         /\ comments' # comments
            => /\ pc = "await_completion"
               /\ pc' = "for_chunk"
               /\ calls' = calls
               /\ Len(comments') > Len(comments)
               /\ SubSeq(comments', 1, Len(comments)) = comments
               /\ \A i \in (Len(comments) + 1)..Len(comments') :
                    comments'[i].path = calls[Len(calls)].path ]_vars

\* A finished review of two files with one hunk each, both requested.
C17_Witness ==
  /\ pc = "done"
  /\ Analyzed
  /\ Len(IssuedRequests) = 2
  /\ IssuedRequests[1].file = 1
  /\ IssuedRequests[2].file = 2
  /\ Len(comments) = 2

\* ---------------------------------------------- createPrompt on its own

PromptLineNumbers == 1..MaxChanges

\* The changes drawn: an added line, a removed line, an unchanged line
\* with any pair of old and new numbers, and a change that carries no
\* number at all, for which the map callback has its last branch.
PromptChanges ==
  { AddChange(n, "+max = 42;") : n \in PromptLineNumbers }
    \cup { DeleteChange(n, "-max = 9;") : n \in PromptLineNumbers }
    \cup { NormalChange(o, n, " retry();") : o, n \in PromptLineNumbers }
    \cup { [type |-> "normal", ln |-> None, ln1 |-> None, ln2 |-> None,
            content |-> " done();"] }

\* The hunks drawn: every sequence of one to MaxChanges changes.
PromptChunks ==
  { [content |-> "@@ -1,2 +1,2 @@", changes |-> cs] :
      cs \in UNION { [1..n -> PromptChanges] : n \in 1..MaxChanges } }

\* The run at the head of the chunk loop for the only hunk of a.ts, its
\* content fetched, as Spec reaches it.
InitPrompt ==
  \E chunk \in PromptChunks :
      LET file    == [hasTo |-> TRUE, to |-> PathA, chunks |-> <<chunk>>]
          content == "const max = 42;"
      IN /\ eventAction = "opened"
         /\ excludeInput = <<>>
         /\ pc = "for_chunk"
         /\ prDetails \in { PRDetailsOf(r) : r \in PRResponses }
         /\ diff = DiffText(<<file>>)
         /\ parsedDiff = <<file>>
         /\ filteredDiff = <<file>>
         /\ fileIdx = 1
         /\ chunkIdx = 1
         /\ fileCache = CachePut(<<>>, file.to, content)
         /\ lastFetch = [kind |-> "file", content |-> content]
         /\ prompt = NoPrompt
         /\ aiOutcome = NoOutcome
         /\ comments = <<>>
         /\ calls = << Call("pulls.get", <<>>, 0, 0),
                       Call("pulls.get:diff", <<>>, 0, 0),
                       Call("repos.getContent", file.to, 1, 0) >>
         /\ review = NoReview
         /\ reviewResult = "none"
         /\ status = "running"
         /\ exitCode = 0

\* createPrompt applied to the drawn hunk, by the step of the run itself.
BuildPrompt ==
  /\ pc = "for_chunk"
  /\ chunkIdx <= Len(filteredDiff[fileIdx].chunks)
  /\ NextChunk

SpecPrompt == InitPrompt /\ [][BuildPrompt]_vars

\* The line number a change has on the new side and on the old side of
\* the diff, by the kind of the change.
NewSide(c) ==
  IF c.type = "add" THEN c.ln
  ELSE IF c.type = "normal" THEN c.ln2
  ELSE None

OldSide(c) ==
  IF c.type = "del" THEN c.ln
  ELSE IF c.type = "normal" THEN c.ln1
  ELSE None

\* C18: the prompt of a requested hunk has one line per change of the
\* hunk, in the hunk's order, each with the content of its change and
\* prefixed with the new-side line number when the change has one, else
\* with the old-side line number when it has that, else with nothing.
C18_PromptLineNumbers ==
  pc = "await_completion"
    => LET changes == filteredDiff[fileIdx].chunks[chunkIdx].changes
       IN /\ Len(prompt.lines) = Len(changes)
          /\ \A i \in 1..Len(changes) :
               /\ prompt.lines[i].content = changes[i].content
               /\ prompt.lines[i].prefix =
                    IF NewSide(changes[i]) # None THEN NewSide(changes[i])
                    ELSE OldSide(changes[i])

\* The prompt of a hunk with an unchanged line, old number 1 and new
\* number 2, followed by a removed line.
C18_Witness ==
  /\ pc = "await_completion"
  /\ filteredDiff[fileIdx].chunks[chunkIdx].changes =
       << NormalChange(1, 2, " retry();"), DeleteChange(2, "-max = 9;") >>
  /\ prompt.lines[1].prefix = 2
  /\ prompt.lines[2].prefix = 2

\* The new-side line numbers of the hunks of a file.
NewSideLines(file) ==
  UNION { { NewSide(file.chunks[c].changes[i]) :
              i \in 1..Len(file.chunks[c].changes) } :
          c \in 1..Len(file.chunks) } \ {None}

\* C19 as stated: every anchor of the review request has as its line a
\* new-side line number of some hunk of a FileChange of the diff whose
\* targetPath is the anchor's path.
C19_AnchorAddressable ==
  \A i \in 1..Len(review.comments) :
    \E k \in 1..Len(parsedDiff) :
      /\ parsedDiff[k].hasTo
      /\ parsedDiff[k].to = review.comments[i].path
      /\ \E n \in NewSideLines(parsedDiff[k]) :
           review.comments[i].line = JSInt(n)

\* C19 amended: every anchor of the review request has the targetPath of
\* a reviewed FileChange of the diff that has hunks as its path; and each
\* anchor enters the aggregate with the path of the hunk's file and, as
\* its line, the numeric coercion of the lineNumber the model returned
\* for that hunk, whatever number or NaN that is.
C19_AnchorOfReviewedHunk ==
  /\ [] ( \A i \in 1..Len(review.comments) :
            \E k \in 1..Len(parsedDiff) :
              /\ ~Unreviewable(parsedDiff[k])
              /\ Len(parsedDiff[k].chunks) > 0
              /\ parsedDiff[k].to = review.comments[i].path )
  /\ [][ (pc = "await_completion" /\ comments' # comments)
          => LET items == aiOutcome'.reviews.items
                 file  == filteredDiff[fileIdx]
             IN /\ Len(comments') = Len(comments) + Len(items)
                /\ \A i \in 1..Len(items) :
                     /\ comments'[Len(comments) + i].path = file.to
                     /\ comments'[Len(comments) + i].line =
                          ToNumber(items[i].lineNumber) ]_vars

\* A review request with an anchor at line 7 of a.ts, whose hunks have
\* the new-side lines 40 to 42.
C19_Witness ==
  /\ pc = "await_review"
  /\ Len(parsedDiff) = 1
  /\ parsedDiff[1].to = PathA
  /\ NewSideLines(parsedDiff[1]) = {40, 41, 42}
  /\ \E i \in 1..Len(review.comments) : review.comments[i].line = JSInt(7)

\* The stage of the run a position belongs to: event routing, diff fetch,
\* parse and filter, per-hunk review, submission, and the end.
Stage(p) ==
  IF p \in {"main", "await_pulls_get", "route"} THEN 1
  ELSE IF p = "await_diff" THEN 2
  ELSE IF p = "have_diff" THEN 3
  ELSE IF p \in {"for_file", "await_content", "for_chunk", "await_completion"}
       THEN 4
  ELSE IF p \in {"analyzed", "await_review"} THEN 5
  ELSE 6

TerminalStates == {"unsupported", "skipped", "submitted", "failed"}

\* C20: when every request is answered, the run reaches its end; at the
\* end it is in exactly one of the terminal states unsupported, skipped,
\* submitted and failed, with a non-zero exit status exactly when failed,
\* and before the end in none; nothing happens after the end; and every
\* step stays in its stage, enters the next one, or ends the run, so no
\* stage is skipped on the way to a later one or entered again.
C20_TerminatesInOrder ==
  /\ <>(pc = "done")
  /\ [] ( /\ pc = "done" => status \in TerminalStates
          /\ pc # "done" => (status = "running" /\ exitCode = 0)
          /\ exitCode = (IF status = "failed" THEN 1 ELSE 0) )
  /\ [][ /\ pc # "done"
         /\ Stage(pc') >= Stage(pc)
         /\ pc' # "done" => Stage(pc') <= Stage(pc) + 1 ]_vars

\* A run that went through every stage and ended failed at the rejection
\* of its review request.
C20_Witness ==
  /\ pc = "done"
  /\ status = "failed"
  /\ exitCode = 1
  /\ Count("chat.completions.create") = 2
  /\ Count("pulls.createReview") = 1

====
